---- MODULE Spec2Model ----
(***************************************************************************)
(* Yootil: the editor tab switcher (yootil.create.bbc_tab and the click    *)
(* handler it binds) and the platform data lookup (yootil.page.__get_data).*)
(*                                                                         *)
(* Strings are modelled as sequences of tokens (substrings): the element   *)
(* id "menu-item-myVisual" is <<"menu-item-", "my", "Visual">>.  The       *)
(* regular expression match and String.split work on the tokens.           *)
(*                                                                         *)
(* The editor's tab row (ul.wysiwyg-tabs) is in the document and holds the *)
(* platform's two headers; content panels can be removed from the document *)
(* by the page at any time.                                                *)
(***************************************************************************)
EXTENDS Integers, Sequences, FiniteSets, TLC

VARIABLES
    row,        \* the <li> headers of ul.wysiwyg-tabs, in document order: their id attributes
    tabs,       \* one record per bbc_tab call: the id argument, the id used, the events object,
                \* and the content panel's DOM state (in the document or not, displayed or not)
    handlers,   \* per header of the row: the click handlers bound to it (the registration each closes over), in binding order
    editors,    \* TRUE iff ".editor .ui-wysiwyg .editors" (the native editor surface) is displayed
    uiActive,   \* the row position of the header carrying class ui-active (0: as the platform left it)
    clock,      \* the number of yootil.timestamp() values handed out
    log,        \* the callback invocations made by the most recent click, in order
    lastClick,  \* the header the most recent click hit (0 when the last step was no click)
    proboards,  \* the platform's global `proboards`
    result      \* the outcome of the most recent __get_data call

vars == <<row, tabs, handlers, editors, uiActive, clock, log, lastClick, proboards, result>>

tabVars == <<row, tabs, handlers, editors, uiActive, clock, log, lastClick>>

(***************************************************************************)
(* Bounds.                                                                 *)
(***************************************************************************)
MaxTabs == 2

(***************************************************************************)
(* Strings.                                                                *)
(***************************************************************************)
MenuItem == "menu-item-"

\* The ids callers pass: a plain one, one that contains "Visual", one that
\* contains "menu-item-"; <<>> is the default "" (no id given).
ExplicitIds == { <<"foo">>, <<"my", "Visual">>, <<"foo", MenuItem, "b">> }

\* String.prototype.toLowerCase on one token (the /i flag of the regex).
Lower(t) ==
    CASE t = "Visual" -> "visual"
      [] t = "BBCode" -> "bbcode"
      [] OTHER -> t

\* id.match(/bbcode|visual/i)
MatchBuiltin(id) == \E i \in 1..Len(id) : Lower(id[i]) \in {"bbcode", "visual"}

\* String.prototype.split(sep): the parts between the occurrences of sep.
RECURSIVE Split(_, _)
Split(s, sep) ==
    IF \A i \in 1..Len(s) : s[i] # sep
    THEN <<s>>
    ELSE LET p == CHOOSE i \in 1..Len(s) : s[i] = sep /\ \A j \in 1..(i - 1) : s[j] # sep
         IN  <<SubSeq(s, 1, p - 1)>> \o Split(SubSeq(s, p + 1, Len(s)), sep)

\* "#" + id.split("menu-item-")[1]  (index 1 of a one-part split is undefined);
\* the selector stays "" when the id is empty.
Selector(id) ==
    IF id = <<>> THEN <<>>
    ELSE LET parts == Split(id, MenuItem)
         IN  <<"#">> \o (IF Len(parts) >= 2 THEN parts[2] ELSE <<"undefined">>)

\* $(selector) for an id selector: the first element of the document with
\* that id (content panels stand in the document in registration order).
Query(selector, tb) ==
    LET hits == IF selector = <<>> THEN {}
                ELSE {k \in 1..Len(tb) : tb[k].inDoc /\ tb[k].id = Tail(selector)}
    IN  IF hits = {} THEN {} ELSE {CHOOSE k \in hits : \A m \in hits : k <= m}

(***************************************************************************)
(* The row the platform renders: the BBCode and the Visual header.         *)
(***************************************************************************)
BuiltinRow == << <<MenuItem, "bbcode">>, <<MenuItem, "visual">> >>

NumBuiltin == Len(BuiltinRow)

\* The row position of the header ($tab) the j-th bbc_tab call created.
HeaderOf(j) == NumBuiltin + j

\* The events objects callers pass: {}, {show, hide}, {show, hide, context}.
EventsSet ==
    { [show |-> FALSE, hide |-> FALSE, context |-> ""],
      [show |-> TRUE,  hide |-> TRUE,  context |-> ""],
      [show |-> TRUE,  hide |-> TRUE,  context |-> "ctx"] }

(***************************************************************************)
(* The click handler of one bbc_tab call (registration j), run for a click *)
(* on the header at row position a.  st = [tabs, editors, log].            *)
(***************************************************************************)

\* A handler that never binds the context.
Invocation_unbound(cb, j, li, panel, st) ==
    [ cb      |-> cb,
      reg     |-> j,
      this    |-> "unbound",
      tab     |-> HeaderOf(j),
      content |-> j,
      li      |-> li,
      panel   |-> panel,
      shown   |-> st.tabs[panel].shown ]

\* events.hide.bind(events.context)($tab, $tab_content) or events.hide($tab, $tab_content):
\* the callback of registration j, its `this`, its two arguments, the header
\* (li) the handler was looking at when it made the call, the panel its
\* selector found, and whether that panel was displayed at the time of the call.
Invocation(cb, j, li, panel, st) ==
    [ cb      |-> cb,
      reg     |-> j,
      this    |-> IF st.tabs[j].events.context # "" THEN st.tabs[j].events.context ELSE "unbound",
      tab     |-> HeaderOf(j),
      content |-> j,
      li      |-> li,
      panel   |-> panel,
      shown   |-> st.tabs[panel].shown ]

\* A loop body without the $(selector).length test: the hide callback is
\* called whether or not the panel is found.
HideStep_nocheck(st, j, a, i) ==
    LET id == row[i]
    IN  IF MatchBuiltin(id)
        THEN [st EXCEPT !.editors = FALSE]
        ELSE IF row[a] = id
        THEN st
        ELSE LET hit == Query(Selector(id), st.tabs)
                 called == IF st.tabs[j].events.hide
                           THEN Append(st.log, Invocation("hide", j, i, j, st))
                           ELSE st.log
             IN  IF hit = {}
                 THEN [st EXCEPT !.log = called]
                 ELSE [st EXCEPT !.log = called, !.tabs[CHOOSE x \in hit : TRUE].shown = FALSE]

\* One iteration of $active.parent().find("li").each(...).
HideStep(st, j, a, i) ==
    LET id == row[i]
    IN  IF MatchBuiltin(id)
        THEN [st EXCEPT !.editors = FALSE]
        ELSE IF row[a] = id
        THEN st
        ELSE LET hit == Query(Selector(id), st.tabs)
             IN  IF hit = {}
                 THEN st
                 ELSE LET k == CHOOSE x \in hit : TRUE
                          called == IF st.tabs[j].events.hide
                                    THEN Append(st.log, Invocation("hide", j, i, k, st))
                                    ELSE st.log
                      IN  [st EXCEPT !.log = called, !.tabs[k].shown = FALSE]

RECURSIVE HideLoop(_, _, _, _)
HideLoop(st, j, a, i) ==
    IF i > Len(row) THEN st ELSE HideLoop(HideStep(st, j, a, i), j, a, i + 1)

\* The part of the handler after the loop, for the clicked header.
ShowBranch(st, j, a) ==
    LET id == row[a]
        hit == Query(Selector(id), st.tabs)
    IN  IF MatchBuiltin(id)
        THEN [st EXCEPT !.editors = TRUE]
        ELSE IF hit = {}
        THEN st
        ELSE LET k == CHOOSE x \in hit : TRUE
                 called == IF st.tabs[j].events.show
                           THEN Append(st.log, Invocation("show", j, a, k, st))
                           ELSE st.log
             IN  [st EXCEPT !.log = called, !.tabs[k].shown = TRUE]

Handler(st, j, a) == ShowBranch(HideLoop(st, j, a, 1), j, a)

\* jQuery runs the handlers bound to the clicked element in binding order.
RECURSIVE RunHandlers(_, _, _)
RunHandlers(st, hs, a) ==
    IF hs = <<>> THEN st ELSE RunHandlers(Handler(st, Head(hs), a), Tail(hs), a)

(***************************************************************************)
(* yootil.create.bbc_tab                                                   *)
(***************************************************************************)

\* yootil.timestamp(): a value no earlier call returned.
timestamp == 1000 + clock

\* A fixed default id in place of the generated one.
TabId_fixed(id, stamp) == IF id # <<>> THEN id ELSE <<"tab">>

\* id = id || yootil.timestamp(), as it is spliced into the markup.
TabId(id, stamp) == IF id # <<>> THEN id ELSE <<ToString(stamp)>>

\* The handler bound to the new header alone.
BindAll_new(hs, n, j) ==
    [i \in 1..n |-> IF i <= Len(hs) THEN hs[i] ELSE <<j>>]

\* $wysiwyg_tabs.find("li").click(handler): one more handler on every header.
BindAll(hs, n, j) ==
    [i \in 1..n |-> Append(IF i <= Len(hs) THEN hs[i] ELSE <<>>, j)]

bbc_tab(idArg, events) ==
    LET id == TabId(idArg, timestamp)
        j  == Len(tabs) + 1
    IN  /\ Len(tabs) < MaxTabs
        /\ clock' = IF idArg = <<>> THEN clock + 1 ELSE clock
        /\ row' = Append(row, <<MenuItem>> \o id)
        /\ tabs' = Append(tabs, [arg |-> idArg, id |-> id, events |-> events,
                                 inDoc |-> TRUE, shown |-> FALSE])
        /\ handlers' = BindAll(handlers, Len(row) + 1, j)
        /\ log' = <<>>
        /\ lastClick' = 0
        /\ UNCHANGED <<editors, uiActive, proboards, result>>

(***************************************************************************)
(* A click on the header at row position a.                                *)
(***************************************************************************)
Click(a) ==
    /\ a \in 1..Len(row)
    /\ \E st \in {RunHandlers([tabs |-> tabs, editors |-> editors, log |-> <<>>], handlers[a], a)} :
          /\ tabs' = st.tabs
          /\ editors' = st.editors
          /\ log' = st.log
    /\ uiActive' = IF handlers[a] # <<>> THEN a ELSE uiActive
    /\ lastClick' = a
    /\ UNCHANGED <<row, handlers, clock, proboards, result>>

(***************************************************************************)
(* The page removes a content panel from the document.                     *)
(***************************************************************************)
RemovePanel(k) ==
    /\ k \in 1..Len(tabs)
    /\ tabs[k].inDoc
    /\ tabs' = [tabs EXCEPT ![k].inDoc = FALSE]
    /\ log' = <<>>
    /\ lastClick' = 0
    /\ UNCHANGED <<row, handlers, editors, uiActive, clock, proboards, result>>

(***************************************************************************)
(* yootil.page.__get_data                                                  *)
(***************************************************************************)
Keys == {"id", "name", "url"}

\* JavaScript values of a page entry; "<undefined>" and "<null>" stand for
\* undefined (also: no such key) and null.
Values == {"<undefined>", "<null>", "", "thread"}

Pages == {[kind |-> "undefined"]} \cup {[kind |-> "object", fields |-> f] : f \in [Keys -> Values]}

DataHashes == {[kind |-> "undefined"]} \cup {[kind |-> "object", page |-> p] : p \in Pages}

\* The global: not declared at all, declared with a falsy value, or the platform's object.
Platforms ==
    {[kind |-> "undeclared"], [kind |-> "undefined"]}
        \cup {[kind |-> "object", dataHash |-> d] : d \in DataHashes}

__get_data(pb, key) ==
    IF pb.kind = "undeclared"
    THEN [kind |-> "throw", key |-> key, value |-> "ReferenceError"]
    ELSE IF /\ pb.kind = "object"
            /\ pb.dataHash.kind = "object"
            /\ pb.dataHash.page.kind = "object"
            /\ pb.dataHash.page.fields[key] # "<undefined>"
    THEN [kind |-> "return", key |-> key, value |-> pb.dataHash.page.fields[key]]
    ELSE [kind |-> "return", key |-> key, value |-> ""]

GetData(key) ==
    /\ result' = __get_data(proboards, key)
    /\ UNCHANGED <<tabVars, proboards>>

(***************************************************************************)
(* Specifications.                                                         *)
(***************************************************************************)
InitTabs ==
    /\ row = BuiltinRow
    /\ tabs = <<>>
    /\ handlers = [i \in 1..NumBuiltin |-> <<>>]
    /\ editors = TRUE
    /\ uiActive = 0
    /\ clock = 0
    /\ log = <<>>
    /\ lastClick = 0

NoResult == [kind |-> "none", key |-> "", value |-> ""]

Init ==
    /\ InitTabs
    /\ proboards = [kind |-> "object", dataHash |-> [kind |-> "undefined"]]
    /\ result = NoResult

Register == \E idArg \in ExplicitIds \cup {<<>>}, events \in EventsSet : bbc_tab(idArg, events)

ClickHeader == \E a \in 1..(NumBuiltin + MaxTabs) : Click(a)

Remove == \E k \in 1..MaxTabs : RemovePanel(k)

Next == Register \/ ClickHeader \/ Remove

Spec == Init /\ [][Next]_vars

InitPage ==
    /\ InitTabs
    /\ proboards \in Platforms
    /\ result = NoResult

NextPage == \E key \in Keys : GetData(key)

SpecPage == InitPage /\ [][NextPage]_vars

(***************************************************************************)
(* Vocabulary of the properties.                                           *)
(***************************************************************************)
CustomHeaders == (NumBuiltin + 1)..Len(row)

\* The registration that created the header at row position i.
PanelOf(i) == i - NumBuiltin

\* The panel the handler finds for the header at row position i.
Resolve(i) == Query(Selector(row[i]), tabs)

VisiblePanels == {k \in 1..Len(tabs) : tabs[k].inDoc /\ tabs[k].shown}

AllInDoc == \A k \in 1..Len(tabs) : tabs[k].inDoc

Calls(cb, j) == {n \in 1..Len(log) : log[n].cb = cb /\ log[n].reg = j}

CallsFor(cb, j, i) == {n \in Calls(cb, j) : log[n].li = i}

(***************************************************************************)
(* C1: after a click on a custom (non-built-in) header exactly one custom  *)
(* panel is visible, the clicked header's; after a click on a built-in     *)
(* header no custom panel is visible and the editor surface is shown.      *)
(* (Clicks and registrations only: no panel has left the document.)        *)
(***************************************************************************)
C1_OneVisible ==
    (lastClick # 0 /\ handlers[lastClick] # <<>> /\ AllInDoc) =>
        IF lastClick \in CustomHeaders /\ ~MatchBuiltin(row[lastClick])
        THEN VisiblePanels = {PanelOf(lastClick)}
        ELSE VisiblePanels = {} /\ editors

(***************************************************************************)
(* C2: a click on the header the previous click hit fires no callback at   *)
(* all (the call counts stay what they were after the first click).        *)
(***************************************************************************)
C2_RepeatIsSilent ==
    [][(lastClick # 0 /\ lastClick' = lastClick) => (log' = <<>>)]_vars

(***************************************************************************)
(* C3: A registered first, B second, both with show and hide.  The click   *)
(* on A calls A's show once, nothing of B and not A's hide, and leaves A   *)
(* visible and B hidden; the click on B that follows calls A's hide once   *)
(* and leaves B visible and A hidden.                                      *)
(***************************************************************************)
C3_Scenario ==
    /\ Len(tabs) = 2
    /\ tabs[1].id = <<"foo">>
    /\ tabs[2].arg = <<>>
    /\ \A k \in 1..2 : tabs[k].inDoc /\ tabs[k].events.show /\ tabs[k].events.hide

C3_AfterA ==
    /\ Cardinality(Calls("show", 1)) = 1
    /\ Calls("hide", 1) = {}
    /\ Calls("show", 2) = {} /\ Calls("hide", 2) = {}
    /\ tabs[1].shown /\ ~tabs[2].shown

C3_AfterB ==
    /\ Cardinality(Calls("hide", 1)) = 1
    /\ tabs[2].shown /\ ~tabs[1].shown

\* C3: in the scenario, the first click on A's header and the click on B's
\* header right after it call the callbacks and leave the panels as described.
C3_EndToEnd ==
    [][ C3_Scenario' =>
          /\ (lastClick = 0 /\ lastClick' = HeaderOf(1)) => C3_AfterA'
          /\ (lastClick = HeaderOf(1) /\ lastClick' = HeaderOf(2)) => C3_AfterB' ]_vars

(***************************************************************************)
(* C4: every hide call gets the header being hidden and that header's      *)
(* panel; every show call gets the clicked header and its panel.           *)
(***************************************************************************)
C4_CallbackArguments ==
    \A n \in 1..Len(log) :
        /\ log[n].cb = "hide" =>
              /\ log[n].li # lastClick
              /\ log[n].tab = log[n].li
              /\ log[n].content = PanelOf(log[n].li)
        /\ log[n].cb = "show" =>
              /\ log[n].tab = lastClick
              /\ log[n].content = PanelOf(lastClick)

(***************************************************************************)
(* C5: a click on the header of a registered tab, whatever its id, makes   *)
(* the tab's panel visible, after calling the tab's show callback, when    *)
(* the panel is in the document.                                           *)
(***************************************************************************)
C5_ClickShowsPanel ==
    (lastClick \in CustomHeaders /\ tabs[PanelOf(lastClick)].inDoc) =>
        LET p == PanelOf(lastClick)
        IN  /\ tabs[p].shown
            /\ tabs[p].events.show =>
                  \E n \in Calls("show", p) : log[n].panel = p

C7_ContextBound ==
    \A n \in 1..Len(log) :
        LET ev == tabs[log[n].reg].events
        IN  /\ ev.context # "" => log[n].this = ev.context
            /\ ev.context = "" => log[n].this = "unbound"
            /\ log[n].tab = HeaderOf(log[n].reg)
            /\ log[n].content = log[n].reg

C7_Witness ==
    \E n \in 1..Len(log), m \in 1..Len(log) :
        /\ log[n].cb = "hide" /\ log[n].this = "ctx"
        /\ log[m].cb = "show" /\ log[m].this = "unbound"

(***************************************************************************)
(* C8: after a click, no callback was called for a header whose panel is   *)
(* no longer found in the document, and the other headers' panels were     *)
(* hidden and the clicked header's panel shown all the same.               *)
(***************************************************************************)
Gone(i) == i \in CustomHeaders /\ Resolve(i) = {}

\* C8: with some header's panel gone, a click calls nothing for that header
\* and still hides the other headers' panels and shows the clicked one's.
C8_MissingPanelSkipped ==
    (lastClick # 0 /\ \E i \in CustomHeaders : Gone(i)) =>
        /\ \A i \in CustomHeaders : Gone(i) => \A n \in 1..Len(log) : log[n].li # i
        /\ \A i \in CustomHeaders :
              (~MatchBuiltin(row[i]) /\ row[i] # row[lastClick]) =>
                  \A k \in Resolve(i) :
                      \/ ~tabs[k].shown
                      \/ ~MatchBuiltin(row[lastClick]) /\ k \in Resolve(lastClick)
        /\ ~MatchBuiltin(row[lastClick]) => \A k \in Resolve(lastClick) : tabs[k].shown
        /\ MatchBuiltin(row[lastClick]) => editors

C8_Witness ==
    /\ lastClick \in CustomHeaders
    /\ \E i \in CustomHeaders : i # lastClick /\ Gone(i) /\ tabs[PanelOf(i)].events.hide
    /\ \E k \in Resolve(lastClick) : tabs[k].shown
    /\ log # <<>>

(***************************************************************************)
(* C10: the i-th registered header carries the handlers of registrations   *)
(* i..N, and a click on it runs them in registration order: each calls its *)
(* hide callback once per header it hides and then its show callback once. *)
(***************************************************************************)
HandlersBound ==
    \A i \in 1..Len(row) :
        LET first == IF i \in CustomHeaders THEN PanelOf(i) ELSE 1
        IN  /\ Len(handlers[i]) = Len(tabs) - first + 1
            /\ \A n \in 1..Len(handlers[i]) : handlers[i][n] = first + n - 1

\* The calls of one click on header a, given which headers a handler hides
\* (Hides(i, a)) and whether it shows the clicked header's panel (Shows(a)).
ClickCalls(a, Hides(_, _), Shows(_)) ==
    /\ \A n \in 1..Len(log) : log[n].reg >= PanelOf(a)
    /\ \A j \in PanelOf(a)..Len(tabs) :
          /\ Cardinality(Calls("show", j)) = IF Shows(a) /\ tabs[j].events.show THEN 1 ELSE 0
          /\ \A i \in 1..Len(row) :
                Cardinality(CallsFor("hide", j, i)) =
                    IF Hides(i, a) /\ tabs[j].events.hide THEN 1 ELSE 0
    /\ \A n \in 1..Len(log), m \in 1..Len(log) :
          n < m => \/ log[n].reg < log[m].reg
                   \/ log[n].reg = log[m].reg /\ log[n].cb = "hide"

\* As claimed: every other custom header whose panel exists; always a show.
\* (Stated for rows of plain ids; C5 is about the others.)
HidesAsClaimed(i, a) ==
    i \in CustomHeaders /\ ~MatchBuiltin(row[i]) /\ i # a /\ tabs[PanelOf(i)].inDoc

ShowsAsClaimed(a) == TRUE

\* The ids of the row are plain: none matches the built-in pattern, each
\* header's selector names its own panel's id, and no two are equal.
PlainIds ==
    \A i \in CustomHeaders :
        /\ ~MatchBuiltin(row[i])
        /\ Selector(row[i]) = <<"#">> \o tabs[PanelOf(i)].id
        /\ \A k \in CustomHeaders : k # i => row[k] # row[i]

HidesFound(i, a) ==
    i \in CustomHeaders /\ ~MatchBuiltin(row[i]) /\ row[i] # row[a] /\ Resolve(i) # {}

ShowsFound(a) == ~MatchBuiltin(row[a]) /\ Resolve(a) # {}

EntryDefined(pb, key) ==
    /\ pb.kind = "object"
    /\ pb.dataHash.kind = "object"
    /\ pb.dataHash.page.kind = "object"
    /\ pb.dataHash.page.fields[key] # "<undefined>"

C9_GetDataDefaults ==
    result.kind # "none" =>
        /\ result.kind = "return"
        /\ result.value = IF EntryDefined(proboards, result.key)
                          THEN proboards.dataHash.page.fields[result.key]
                          ELSE ""

====
